---- MODULE Spec2Model ----
(***************************************************************************)
(* A model of the drone-s3 plugin (plugin.go): Plugin.Exec, matches and    *)
(* contentType.  Exec is a sequential program; pc is its position.  The    *)
(* filesystem, the glob library, gzip and the S3 client are the            *)
(* environment: their outcomes are chosen nondeterministically at the      *)
(* step that calls them.                                                   *)
(*                                                                         *)
(* A path is a sequence of atoms: "/" is the separator, "." a dot, any     *)
(* other atom a run of ordinary characters.  "dist/app.js" is              *)
(* <<"dist", "/", "app", ".", "js">> and ".." is <<".", ".">>.             *)
(***************************************************************************)
EXTENDS Integers, Sequences, FiniteSets, TLC

VARIABLES
    p,            \* the Plugin: Target, Access, Exclude, DryRun, Compress
    pc,           \* position in Exec
    matchList,    \* the local `matches` of Exec: the list returned by matches()
    excludem,     \* the exclusion map of matches()
    pattern,      \* 1-based position of matches() in p.Exclude
    i,            \* 1-based position of the range loop in matchList
    f,            \* the *os.File of the current iteration: [idx, off] or NoFile
    input,        \* the s3.PutObjectInput under construction, or NoInput
    gw,           \* the gzip.Writer of the current iteration
    b,            \* the bytes.Buffer gw writes to
    openHandles,  \* positions whose file handle is open
    defers,       \* positions whose f.Close() is deferred to the return
    writes,       \* the PutObject requests the store accepted, in order
    result,       \* the value Exec returns ("running" until it returns)
    globInclude,  \* history: what zglob.Glob(p.Source) returned
    globExcluded, \* history: every path some exclude glob call returned
    globCalls,    \* history: outcome of each zglob.Glob call, in order
    events,       \* history: the calls Exec made to the environment
    failedAt      \* history: position whose open, gzip or write failed, else 0

vars == <<p, pc, matchList, excludem, pattern, i, f, input, gw, b, openHandles,
          defers, writes, result, globInclude, globExcluded, globCalls, events,
          failedAt>>

(***************************************************************************)
(* Bounds of the model.                                                    *)
(***************************************************************************)
MaxInclude == 3      \* longest include expansion
MaxExclude == 2      \* most exclude patterns
MaxExcludeLen == 1   \* longest expansion of one exclude pattern
ChunkSize == 2       \* bytes io.Copy moves per read

(***************************************************************************)
(* The filesystem the run sees: a directory and two files.                 *)
(***************************************************************************)
DistDir == <<"dist">>
AppJs == <<"dist", "/", "app", ".", "js">>
AppMap == <<"/", "srv", "/", "app", ".", "js", ".", "map">>
Paths == {DistDir, AppJs, AppMap}
Dirs == {DistDir}

FileBytes(path) ==
    IF path = AppJs THEN <<5, 7, 7>>
    ELSE IF path = AppMap THEN <<>>
    ELSE <<>>

Targets == {<<>>, <<"bundle">>, <<"/", "/", "bundle", "/">>}
Accesses == {"private", "public-read"}

Range(s) == {s[k] : k \in 1..Len(s)}
SeqsUpTo(S, n) == UNION {[1..k -> S] : k \in 0..n}

(***************************************************************************)
(* strings.HasPrefix(s, "/")                                               *)
(***************************************************************************)
HasPrefix(s) == Len(s) > 0 /\ s[1] = "/"

(***************************************************************************)
(* filepath.Clean on a slash-separated path.                               *)
(***************************************************************************)
RECURSIVE Split(_)
Split(s) ==
    \* the components of s between separators (strings.Split(s, "/"))
    IF \A k \in 1..Len(s) : s[k] # "/" THEN <<s>>
    ELSE LET k == CHOOSE k \in 1..Len(s) :
                      s[k] = "/" /\ \A j \in 1..(k - 1) : s[j] # "/"
         IN <<SubSeq(s, 1, k - 1)>> \o Split(SubSeq(s, k + 1, Len(s)))

RECURSIVE JoinSep(_)
JoinSep(cs) ==
    \* strings.Join(cs, "/")
    IF Len(cs) = 0 THEN <<>>
    ELSE IF Len(cs) = 1 THEN cs[1]
    ELSE cs[1] \o <<"/">> \o JoinSep(Tail(cs))

RECURSIVE CleanFold(_, _, _)
CleanFold(cs, out, rooted) ==
    \* one pass over the components, as Clean's loop: empty and "." are
    \* dropped, ".." backtracks over a real component, is kept at the front
    \* of a relative path and is dropped at the root
    IF Len(cs) = 0 THEN out
    ELSE LET c == Head(cs)
             rest == Tail(cs)
         IN IF c = <<>> \/ c = <<".">> THEN CleanFold(rest, out, rooted)
            ELSE IF c = <<".", ".">> THEN
                IF Len(out) > 0 /\ out[Len(out)] # <<".", ".">>
                    THEN CleanFold(rest, SubSeq(out, 1, Len(out) - 1), rooted)
                ELSE IF rooted THEN CleanFold(rest, out, rooted)
                ELSE CleanFold(rest, Append(out, c), rooted)
            ELSE CleanFold(rest, Append(out, c), rooted)

Clean(path) ==
    IF Len(path) = 0 THEN <<".">>
    ELSE LET rooted == HasPrefix(path)
             out == CleanFold(Split(path), <<>>, rooted)
         IN IF rooted THEN <<"/">> \o JoinSep(out)
            ELSE IF Len(out) = 0 THEN <<".">>
            ELSE JoinSep(out)

(***************************************************************************)
(* filepath.Join(target, match): empty leading elements are dropped, the   *)
(* rest joined by the separator and cleaned.                               *)
(***************************************************************************)
Join(target, match) ==
    IF target # <<>> THEN Clean(target \o <<"/">> \o match)
    ELSE IF match # <<>> THEN Clean(match)
    ELSE <<>>

(***************************************************************************)
(* Exec, lines 113-116: the object key of a matched path.                  *)
(***************************************************************************)
\* faulty variant: the slash is added without the HasPrefix check
TargetKeyAlwaysPrefixed(target, match) == <<"/">> \o Join(target, match)

TargetKey(target, match) ==
    LET joined == Join(target, match)
    IN IF ~HasPrefix(joined) THEN <<"/">> \o joined ELSE joined

(***************************************************************************)
(* contentType: the MIME type of the extension, the extension being the    *)
(* suffix from the last dot of the last path element.                      *)
(***************************************************************************)
Ext(path) ==
    LET dots == {k \in 1..Len(path) :
                    path[k] = "." /\ \A j \in k..Len(path) : path[j] # "/"}
    IN IF dots = {} THEN <<>>
       ELSE LET k == CHOOSE k \in dots : \A j \in dots : j <= k
            IN SubSeq(path, k, Len(path))

TypeByExtension(ext) ==
    IF ext = <<".", "js">> THEN "application/javascript" ELSE ""

contentType(path) ==
    LET typ == TypeByExtension(Ext(path))
    IN IF typ = "" THEN "application/octet-stream" ELSE typ

(***************************************************************************)
(* matches, lines 197-228: the pieces that build the exclusion map and     *)
(* filter the include expansion.                                           *)
(***************************************************************************)
\* lines 214-216: the paths of one exclude expansion go into the map
\* faulty variant: the map is overwritten by each pattern
OnlyLastExcludes(excludem_, excludes) == Range(excludes)
AddExcludes(excludem_, excludes) == excludem_ \cup Range(excludes)

\* lines 219-227: the include expansion without the excluded paths
Included(expansion, excludem_) ==
    SelectSeq(expansion, LAMBDA q : q \notin excludem_)

\* lines 199-201 and 211-213: a glob error ends matches and, lines 94-99,
\* Exec
\* faulty variant: the error of an exclude pattern is not returned
GlobErrorIgnored == "exclude"
ExcludeErrorPc == "done"

(***************************************************************************)
(* compress/gzip: a header, the deflated data, a trailer with the checksum *)
(* and the length of the data.  Deflate is modelled by run-length coding,  *)
(* the CRC by a sum; both depend on the whole stream, not on how it was    *)
(* cut into Write calls.                                                   *)
(***************************************************************************)
GzipHeader == <<31, 139, 8>>

RECURSIVE Checksum(_)
Checksum(data) ==
    IF Len(data) = 0 THEN 0 ELSE (Head(data) + Checksum(Tail(data))) % 256

RECURSIVE Deflate(_)
Deflate(data) ==
    IF Len(data) = 0 THEN <<>>
    ELSE LET run == CHOOSE n \in 1..Len(data) :
                        /\ \A k \in 1..n : data[k] = data[1]
                        /\ (n < Len(data) => data[n + 1] # data[1])
         IN <<run, data[1]>> \o Deflate(SubSeq(data, run + 1, Len(data)))

Gzip(data) ==
    GzipHeader \o Deflate(data) \o <<Checksum(data), Len(data) % 256>>

NoWriter == [wroteHeader |-> FALSE, pending |-> <<>>, digest |-> 0, size |-> 0]

\* gzip.Writer.Write: the header goes out with the first Write
GzWrite(w, chunk) ==
    [wroteHeader |-> TRUE,
     pending |-> w.pending \o chunk,
     digest |-> (w.digest + Checksum(chunk)) % 256,
     size |-> (w.size + Len(chunk)) % 256]

BufAfterWrite(w, buf) == IF w.wroteHeader THEN buf ELSE buf \o GzipHeader

\* gzip.Writer.Close: header if none was written, the deflated data, trailer
BufAfterClose(w, buf) ==
    BufAfterWrite(w, buf) \o Deflate(w.pending) \o <<w.digest, w.size>>

(***************************************************************************)
(* The pieces of Exec's loop body that decide what happens to an entry.    *)
(***************************************************************************)
NoFile == [idx |-> 0, off |-> 0]
NoBody == [kind |-> "none", bytes |-> <<>>]
NoInput == [Key |-> <<>>, ACL |-> "", ContentType |-> "",
            ContentEncoding |-> "", Body |-> NoBody]

Min(x, y) == IF x < y THEN x ELSE y

Event(op, idx, ok) == [op |-> op, idx |-> idx, ok |-> ok]

\* lines 109-111
\* faulty variant: directories are not skipped
DirNotSkipped(path) == FALSE
IsDir(path) == path \in Dirs

\* lines 132-134
\* faulty variant: the DryRun check is missing
DryRunIgnored(plugin) == FALSE
SkipUpload(plugin) == plugin.DryRun

\* lines 104-106: a failed stat skips the entry
\* faulty variant: a failed stat ends the run
StatErrorAborts == "done"
StatErrorPc == "loop"

\* lines 137-143, 160-166, 178-187: return err
\* faulty variant: the loop goes on after the error
FatalErrorContinues == "loop"
FatalErrorPc == "done"

\* line 101: the range loop moves to the next entry
\* faulty variant: an entry is stepped over
NextIndexSkipsOne(k) == k + 2
NextIndex(k) == k + 1

\* lines 147-152
NewInput(plugin, match) ==
    [Key |-> TargetKey(plugin.Target, match),
     ACL |-> plugin.Access,
     ContentType |-> contentType(match),
     ContentEncoding |-> "",
     Body |-> NoBody]

\* lines 168-170
\* faulty variant: the content-encoding is not set
CompressedInputNoEncoding(in, buf) ==
    [in EXCEPT !.Body = [kind |-> "bytes", bytes |-> buf]]
CompressedInput(in, buf) ==
    [in EXCEPT !.Body = [kind |-> "bytes", bytes |-> buf],
               !.ContentEncoding = "gzip"]

\* line 172
FileInput(in) == [in EXCEPT !.Body = [kind |-> "file", bytes |-> <<>>]]

\* what PutObject sends: a file body is read from the handle's offset to
\* the end of the file
BodySent(in, file, match) ==
    IF in.Body.kind = "file"
        THEN SubSeq(FileBytes(match), file.off + 1, Len(FileBytes(match)))
        ELSE in.Body.bytes

\* line 188
\* faulty variant: the handle is left to the deferred Close
HandleLeftOpen(handles, idx) == handles
CloseAfterPut(handles, idx) == handles \ {idx}

\* line 144: the deferred calls, run when Exec returns
RunDefers(handles, ds) == handles \ Range(ds)

(***************************************************************************)
(* The state when Exec is called.                                          *)
(***************************************************************************)
Init ==
    /\ p \in [Target : Targets, Access : Accesses,
              Exclude : {[k \in 1..n |-> k] : n \in 0..MaxExclude},
              DryRun : BOOLEAN, Compress : BOOLEAN]
    /\ pc = "start"
    /\ matchList = <<>>
    /\ excludem = {}
    /\ pattern = 0
    /\ i = 0
    /\ f = NoFile
    /\ input = NoInput
    /\ gw = NoWriter
    /\ b = <<>>
    /\ openHandles = {}
    /\ defers = <<>>
    /\ writes = <<>>
    /\ result = "running"
    /\ globInclude = <<>>
    /\ globExcluded = {}
    /\ globCalls = <<>>
    /\ events = <<>>
    /\ failedAt = 0

iterLocals == <<f, input, gw, b>>

matcherVars == <<excludem, pattern, globInclude, globExcluded, globCalls>>

(***************************************************************************)
(* Lines 93-99 and 198-204: Exec calls matches(p.Source, p.Exclude), which *)
(* expands the include pattern.                                            *)
(***************************************************************************)
IncludeError ==
    /\ pc = "start"
    /\ events' = Append(events, Event("matches", 0, FALSE))
    /\ globCalls' = Append(globCalls, FALSE)
    /\ result' = "GlobError"
    /\ pc' = "done"
    /\ openHandles' = RunDefers(openHandles, defers)
    /\ defers' = <<>>
    /\ UNCHANGED <<p, matchList, excludem, pattern, i, iterLocals, writes,
                   globInclude, globExcluded, failedAt>>

IncludeGlob ==
    /\ pc = "start"
    /\ \E expansion \in SeqsUpTo(Paths, MaxInclude) :
          /\ globInclude' = expansion
          /\ IF Len(p.Exclude) = 0
                THEN /\ matchList' = expansion
                     /\ pc' = "loop"
                     /\ i' = 1
                     /\ pattern' = pattern
                ELSE /\ matchList' = matchList
                     /\ pc' = "exclude"
                     /\ i' = i
                     /\ pattern' = 1
    /\ events' = Append(events, Event("matches", 0, TRUE))
    /\ globCalls' = Append(globCalls, TRUE)
    /\ UNCHANGED <<p, excludem, iterLocals, openHandles, defers, writes,
                   result, globExcluded, failedAt>>

(***************************************************************************)
(* Lines 208-217: one exclude pattern is expanded per step.                *)
(***************************************************************************)
ExcludeError ==
    /\ pc = "exclude"
    /\ pattern <= Len(p.Exclude)
    /\ globCalls' = Append(globCalls, FALSE)
    /\ pc' = ExcludeErrorPc
    /\ openHandles' = RunDefers(openHandles, defers)
    /\ defers' = <<>>
    /\ result' = "GlobError"
    /\ UNCHANGED <<p, matchList, excludem, pattern, i, iterLocals, writes,
                   globInclude, globExcluded, events, failedAt>>

ExcludeGlob ==
    /\ pc = "exclude"
    /\ pattern <= Len(p.Exclude)
    /\ \E excludes \in SeqsUpTo(Paths, MaxExcludeLen) :
          /\ excludem' = AddExcludes(excludem, excludes)
          /\ globExcluded' = globExcluded \cup Range(excludes)
    /\ globCalls' = Append(globCalls, TRUE)
    /\ pattern' = pattern + 1
    /\ UNCHANGED <<p, pc, matchList, i, iterLocals, openHandles, defers,
                   writes, result, globInclude, events, failedAt>>

(***************************************************************************)
(* Lines 219-227: the filter; matches returns and Exec enters its loop.    *)
(***************************************************************************)
Filter ==
    /\ pc = "exclude"
    /\ pattern > Len(p.Exclude)
    /\ matchList' = Included(globInclude, excludem)
    /\ i' = 1
    /\ pc' = "loop"
    /\ UNCHANGED <<p, iterLocals, openHandles, defers, writes, result,
                   matcherVars, events, failedAt>>

(***************************************************************************)
(* Lines 101-134: os.Stat on the next entry and the three ways to skip it. *)
(***************************************************************************)
AtEntry == pc = "loop" /\ i >= 1 /\ i <= Len(matchList)

StatError ==
    /\ AtEntry
    /\ events' = Append(events, Event("stat", i, FALSE))
    /\ pc' = StatErrorPc
    /\ i' = NextIndex(i)
    /\ UNCHANGED <<p, matchList, iterLocals, openHandles, defers, writes,
                   result, matcherVars, failedAt>>

StatDir ==
    /\ AtEntry
    /\ IsDir(matchList[i])
    /\ events' = Append(events, Event("stat", i, TRUE))
    /\ i' = NextIndex(i)
    /\ UNCHANGED <<p, pc, matchList, iterLocals, openHandles, defers, writes,
                   result, matcherVars, failedAt>>

StatDryRun ==
    /\ AtEntry
    /\ ~IsDir(matchList[i])
    /\ SkipUpload(p)
    /\ events' = Append(events, Event("stat", i, TRUE))
    /\ i' = NextIndex(i)
    /\ UNCHANGED <<p, pc, matchList, iterLocals, openHandles, defers, writes,
                   result, matcherVars, failedAt>>

StatFile ==
    /\ AtEntry
    /\ ~IsDir(matchList[i])
    /\ ~SkipUpload(p)
    /\ events' = Append(events, Event("stat", i, TRUE))
    /\ pc' = "open"
    /\ UNCHANGED <<p, matchList, i, iterLocals, openHandles, defers, writes,
                   result, matcherVars, failedAt>>

(***************************************************************************)
(* Lines 136-152 and 171-173: os.Open, the deferred Close, the request.    *)
(***************************************************************************)
OpenError ==
    /\ pc = "open"
    /\ events' = Append(events, Event("open", i, FALSE))
    /\ result' = "FileOpenError"
    /\ failedAt' = i
    /\ pc' = FatalErrorPc
    /\ openHandles' = RunDefers(openHandles, defers)
    /\ defers' = <<>>
    /\ UNCHANGED <<p, matchList, i, iterLocals, writes, matcherVars>>

OpenFile ==
    /\ pc = "open"
    /\ events' = Append(events, Event("open", i, TRUE))
    /\ f' = [idx |-> i, off |-> 0]
    /\ openHandles' = openHandles \cup {i}
    /\ defers' = Append(defers, i)
    /\ gw' = NoWriter
    /\ b' = <<>>
    /\ IF p.Compress
          THEN input' = NewInput(p, matchList[i]) /\ pc' = "copy"
          ELSE input' = FileInput(NewInput(p, matchList[i])) /\ pc' = "put"
    /\ UNCHANGED <<p, matchList, i, writes, result, matcherVars, failedAt>>

(***************************************************************************)
(* Lines 155-170: io.Copy(gw, f), one read per step, then gw.Close().      *)
(***************************************************************************)
CopyChunk ==
    /\ pc = "copy"
    /\ f.off < Len(FileBytes(matchList[i]))
    /\ LET data == FileBytes(matchList[i])
           to == Min(f.off + ChunkSize, Len(data))
           chunk == SubSeq(data, f.off + 1, to)
       IN /\ f' = [f EXCEPT !.off = to]
          /\ b' = BufAfterWrite(gw, b)
          /\ gw' = GzWrite(gw, chunk)
    /\ events' = Append(events, Event("read", i, TRUE))
    /\ UNCHANGED <<p, pc, matchList, i, input, openHandles, defers, writes,
                   result, matcherVars, failedAt>>

CopyError ==
    /\ pc = "copy"
    /\ events' = Append(events, Event("read", i, FALSE))
    /\ result' = "CompressionError"
    /\ failedAt' = i
    /\ pc' = FatalErrorPc
    /\ openHandles' = RunDefers(openHandles, defers)
    /\ defers' = <<>>
    /\ UNCHANGED <<p, matchList, i, iterLocals, writes, matcherVars>>

CopyEOF ==
    /\ pc = "copy"
    /\ f.off = Len(FileBytes(matchList[i]))
    /\ LET closed == BufAfterClose(gw, b)
       IN /\ b' = closed
          /\ input' = CompressedInput(input, closed)
    /\ gw' = NoWriter
    /\ events' = Append(events, Event("read", i, TRUE))
    /\ pc' = "put"
    /\ UNCHANGED <<p, matchList, i, f, openHandles, defers, writes, result,
                   matcherVars, failedAt>>

(***************************************************************************)
(* Lines 175-189: client.PutObject(input), then f.Close().                 *)
(***************************************************************************)
PutError ==
    /\ pc = "put"
    /\ events' = Append(events, Event("put", i, FALSE))
    /\ result' = "UploadError"
    /\ failedAt' = i
    /\ pc' = FatalErrorPc
    /\ openHandles' = RunDefers(openHandles, defers)
    /\ defers' = <<>>
    /\ UNCHANGED <<p, matchList, i, iterLocals, writes, matcherVars>>

PutObject ==
    /\ pc = "put"
    /\ writes' = Append(writes,
                        [idx |-> i,
                         Key |-> input.Key,
                         ACL |-> input.ACL,
                         ContentType |-> input.ContentType,
                         ContentEncoding |-> input.ContentEncoding,
                         Body |-> BodySent(input, f, matchList[i])])
    /\ events' = events \o <<Event("put", i, TRUE), Event("close", i, TRUE)>>
    /\ openHandles' = CloseAfterPut(openHandles, i)
    /\ f' = NoFile
    /\ input' = NoInput
    /\ gw' = NoWriter
    /\ b' = <<>>
    /\ i' = NextIndex(i)
    /\ pc' = "loop"
    /\ UNCHANGED <<p, matchList, defers, result, matcherVars, failedAt>>

(***************************************************************************)
(* Line 191: the loop is over and Exec returns success.  On every return,   *)
(* this one and the error returns above, the deferred f.Close() calls of   *)
(* line 144 run.                                                           *)
(***************************************************************************)
LoopEnd ==
    /\ pc = "loop"
    /\ i > Len(matchList)
    /\ result' = "ok"
    /\ pc' = "done"
    /\ openHandles' = RunDefers(openHandles, defers)
    /\ defers' = <<>>
    /\ UNCHANGED <<p, matchList, i, iterLocals, writes, matcherVars, events,
                   failedAt>>

Next ==
    \/ IncludeError
    \/ IncludeGlob
    \/ ExcludeError
    \/ ExcludeGlob
    \/ Filter
    \/ StatError
    \/ StatDir
    \/ StatDryRun
    \/ StatFile
    \/ OpenError
    \/ OpenFile
    \/ CopyChunk
    \/ CopyError
    \/ CopyEOF
    \/ PutError
    \/ PutObject
    \/ LoopEnd

Spec == Init /\ [][Next]_vars

(***************************************************************************)
(* Vocabulary of the properties.                                           *)
(***************************************************************************)
Fatal == {"FileOpenError", "CompressionError", "UploadError"}
UploadOps == {"open", "read", "put", "close"}

\* matches() has returned a list to Exec
MatcherReturned == pc \notin {"start", "exclude"} /\ result # "GlobError"

\* the entry at position j was stat-ed successfully and is not a directory
Statable(j) ==
    \E n \in 1..Len(events) :
        events[n].op = "stat" /\ events[n].idx = j /\ events[n].ok
Eligible(j) == Statable(j) /\ matchList[j] \notin Dirs

\* the entry at position j was skipped by lines 103-111
Skipped(j) ==
    \E n \in 1..Len(events) :
        /\ events[n].op = "stat"
        /\ events[n].idx = j
        /\ (~events[n].ok \/ matchList[j] \in Dirs)

WritesAt(j) == {n \in 1..Len(writes) : writes[n].idx = j}
EventsAt(op, j) ==
    {n \in 1..Len(events) : events[n].op = op /\ events[n].idx = j}
LastEvent == events[Len(events)]

\* "/" + s with a double leading slash normalized to one
SlashNormalized(s) ==
    LET t == <<"/">> \o s
    IN IF Len(t) >= 2 /\ t[2] = "/" THEN Tail(t) ELSE t

(***************************************************************************)
(* C1: once matches() has returned, its result is exactly the elements of  *)
(* the include expansion that no exclude pattern expanded to, in the       *)
(* order of the include expansion; with an empty exclude list it is the    *)
(* include expansion itself.                                               *)
(***************************************************************************)
C1_MatchesFiltersInOrder ==
    MatcherReturned =>
        /\ matchList = SelectSeq(globInclude, LAMBDA q : q \notin globExcluded)
        /\ (Len(p.Exclude) = 0 => matchList = globInclude)

C1_Witness ==
    /\ MatcherReturned
    /\ Len(p.Exclude) = 2
    /\ Cardinality(globExcluded) = 2
    /\ Len(globInclude) = 3
    /\ Len(matchList) = 1

(***************************************************************************)
(* C2: with DryRun set no file is ever opened or read, no PutObject call   *)
(* is issued and nothing is written, whatever Compress, Access and Target  *)
(* are; and when the match set was computed the run returns success.       *)
(***************************************************************************)
C2_DryRunOpensAndWritesNothing ==
    p.DryRun =>
        /\ \A n \in 1..Len(events) : events[n].op \notin UploadOps
        /\ writes = <<>>
        /\ openHandles = {}
        /\ (pc = "done" /\ MatcherReturned => result = "ok")

C2_Witness ==
    /\ p.DryRun
    /\ p.Compress
    /\ pc = "done"
    /\ result = "ok"
    /\ \E j \in 1..Len(matchList) : Eligible(j)

(***************************************************************************)
(* C3: when the open, the gzip copy or the write of the entry at position  *)
(* failedAt fails, Exec is returning that error and the failing call is    *)
(* the last thing it did: the writes of the eligible entries before that   *)
(* position are all there, nothing was done to a later entry, and the      *)
(* result is never success.                                                *)
(***************************************************************************)
C3_FirstErrorAborts ==
    failedAt # 0 =>
        /\ pc = "done"
        /\ result \in Fatal
        /\ LastEvent.idx = failedAt /\ ~LastEvent.ok
        /\ LastEvent.op \in {"open", "read", "put"}
        /\ \A n \in 1..Len(events) : events[n].idx <= failedAt
        /\ \A j \in 1..Len(matchList) :
              Cardinality(WritesAt(j)) =
                  IF j < failedAt /\ Eligible(j) THEN 1 ELSE 0

C3_Witness ==
    /\ failedAt = 2
    /\ Len(matchList) = 3
    /\ result = "FileOpenError"
    /\ pc = "done"
    /\ Len(writes) = 1

(***************************************************************************)
(* C4: the key of every request, built or issued, starts with "/" and is   *)
(* "/" + Join(Target, path) with a double leading slash made one.          *)
(***************************************************************************)
C4_KeyOf(key, j) ==
    /\ HasPrefix(key)
    /\ key = SlashNormalized(Join(p.Target, matchList[j]))

C4_TargetKeyAbsolute ==
    /\ \A n \in 1..Len(writes) : C4_KeyOf(writes[n].Key, writes[n].idx)
    /\ (input # NoInput => C4_KeyOf(input.Key, i))

C4_Witness ==
    /\ p.Target = <<"/", "/", "bundle", "/">>
    /\ Len(writes) = 2
    /\ writes[1].Key = <<"/", "bundle", "/", "dist", "/", "app", ".", "js">>
    /\ writes[2].Key =
           <<"/", "bundle", "/", "srv", "/", "app", ".", "js", ".", "map">>

(***************************************************************************)
(* C5: every request issued carries, with Compress, the gzip encoding of   *)
(* the whole file and content-encoding gzip, and without Compress the      *)
(* file's bytes and no content-encoding.                                   *)
(***************************************************************************)
C5_BodyAndEncoding ==
    \A n \in 1..Len(writes) :
        LET data == FileBytes(matchList[writes[n].idx])
        IN IF p.Compress
              THEN writes[n].Body = Gzip(data)
                   /\ writes[n].ContentEncoding = "gzip"
              ELSE writes[n].Body = data /\ writes[n].ContentEncoding = ""

C5_Witness ==
    /\ p.Compress
    /\ \E n \in 1..Len(writes) :
          /\ matchList[writes[n].idx] = AppJs
          /\ writes[n].Body = <<31, 139, 8, 1, 5, 2, 7, 19, 3>>

(***************************************************************************)
(* C6: when a glob call has failed, Exec is returning the glob error and   *)
(* has stat-ed, opened and written nothing, whether the include pattern or *)
(* a later exclude pattern failed.                                         *)
(***************************************************************************)
C6_GlobErrorBeforeAnyUpload ==
    (\E n \in 1..Len(globCalls) : ~globCalls[n]) =>
        /\ pc = "done"
        /\ result = "GlobError"
        /\ \A n \in 1..Len(events) : events[n].op = "matches"
        /\ writes = <<>>
        /\ openHandles = {}

C6_Witness ==
    /\ globCalls = <<TRUE, TRUE, FALSE>>
    /\ AppJs \in Range(globInclude)
    /\ pc = "done"
    /\ result = "GlobError"

(***************************************************************************)
(* C7, as claimed: the list matches() returns holds no directory and no    *)
(* excluded path.                                                          *)
(***************************************************************************)
C7_MatchSetHasNoDirectory ==
    MatcherReturned =>
        \A j \in 1..Len(matchList) :
            matchList[j] \notin Dirs /\ matchList[j] \notin globExcluded

(***************************************************************************)
(* C7, amended: the list matches() returns holds no excluded path, and a   *)
(* directory in it is never opened, read or written: directories are       *)
(* dropped by the loop of Exec, not by matches().                          *)
(***************************************************************************)
C7_NoExcludedAndDirsNeverUploaded ==
    MatcherReturned =>
        /\ \A j \in 1..Len(matchList) : matchList[j] \notin globExcluded
        /\ \A n \in 1..Len(events) :
              events[n].op \in UploadOps => matchList[events[n].idx] \notin Dirs
        /\ \A n \in 1..Len(writes) : matchList[writes[n].idx] \notin Dirs

C7_Witness ==
    /\ MatcherReturned
    /\ pc = "done"
    /\ result = "ok"
    /\ ~p.DryRun
    /\ matchList = <<DistDir, AppJs>>
    /\ globInclude = <<DistDir, AppMap, AppJs>>
    /\ Statable(1)
    /\ Len(writes) = 1

(***************************************************************************)
(* C8: a run without DryRun that returns success called matches() once,    *)
(* first; stat-ed every entry once; issued one write for each entry that   *)
(* was stat-ed and is no directory and none for the others; and did all of *)
(* it in the order of the match set, an entry being finished before the    *)
(* next is touched.                                                        *)
(***************************************************************************)
C8_OneWritePerEligibleEntryInOrder ==
    (pc = "done" /\ result = "ok" /\ ~p.DryRun) =>
        /\ events[1].op = "matches"
        /\ \A n \in 2..Len(events) : events[n].op # "matches"
        /\ \A j \in 1..Len(matchList) :
              /\ Cardinality(EventsAt("stat", j)) = 1
              /\ Cardinality(WritesAt(j)) = IF Eligible(j) THEN 1 ELSE 0
              /\ Cardinality(EventsAt("put", j)) = Cardinality(WritesAt(j))
        /\ \A n \in 1..Len(writes) : writes[n].idx \in 1..Len(matchList)
        /\ \A m, n \in 1..Len(writes) : m < n => writes[m].idx < writes[n].idx
        /\ \A m, n \in 1..Len(events) : m < n => events[m].idx <= events[n].idx

C8_Witness ==
    /\ pc = "done"
    /\ result = "ok"
    /\ ~p.DryRun
    /\ matchList = <<AppJs, DistDir, AppMap>>
    /\ Len(writes) = 2

(***************************************************************************)
(* C9: an entry whose stat fails or that is a directory is never opened or *)
(* written; right after it is skipped the loop is at the next entry with   *)
(* no error set (or, after the last entry, returns success); and in a      *)
(* successful run without DryRun every eligible entry after it is written. *)
(***************************************************************************)
C9_SkippedEntriesDoNotStopTheRun ==
    \A j \in 1..Len(matchList) :
        Skipped(j) =>
            /\ \A op \in UploadOps : EventsAt(op, j) = {}
            /\ WritesAt(j) = {}
            /\ failedAt # j
            /\ (LastEvent.op = "stat" /\ LastEvent.idx = j =>
                   \/ pc = "loop" /\ i = j + 1 /\ result = "running"
                   \/ pc = "done" /\ result = "ok"
                          /\ j = Len(matchList))
            /\ (pc = "done" /\ result = "ok" /\ ~p.DryRun =>
                   \A later \in (j + 1)..Len(matchList) :
                       Eligible(later) => WritesAt(later) # {})

C9_Witness ==
    /\ pc = "done"
    /\ result = "ok"
    /\ matchList = <<AppJs, DistDir, AppJs>>
    /\ ~Statable(1)
    /\ Skipped(2)
    /\ WritesAt(3) # {}

(***************************************************************************)
(* C10: at most one file handle is open, and only that of the entry being  *)
(* uploaded: none is open when the loop is between entries, and none is    *)
(* open once Exec has returned, with success or with an error.             *)
(***************************************************************************)
C10_AtMostOneOpenHandle ==
    /\ Cardinality(openHandles) <= 1
    /\ (pc \in {"copy", "put"} => openHandles = {i})
    /\ (pc \in {"start", "exclude", "loop", "open", "done"} => openHandles = {})

C10_Witness ==
    /\ pc = "done"
    /\ result = "UploadError"
    /\ failedAt = 2
    /\ Len(writes) = 1
    /\ Len(defers) = 0

====
